---- MODULE Spec2Model ----
(***************************************************************************)
(* Model of the anthropic-auth crate: the local OAuth callback listener    *)
(* (src/server.rs) and the asynchronous OAuth client (src/client/async.rs, *)
(* src/client/shared.rs, src/types.rs).                                    *)
(*                                                                         *)
(* Strings are sequences of bytes (one-character strings), so that         *)
(* str::len, str::find and slicing are computed as the code computes them. *)
(* Option<T> is a sequence of length at most one.                          *)
(***************************************************************************)
EXTENDS Integers, Sequences, FiniteSets, TLC

\* ------------------------------------------------------------ bounds

\* Number of inbound /callback requests one listener instance is sent.
MaxRequests == 2

\* ------------------------------------------------------------ options, strings

None == <<>>

Some(x) == <<x>>

IsSome(o) == Len(o) = 1

Unwrap(o) == o[1]

\* Option::unwrap_or
UnwrapOr(o, d) == IF IsSome(o) THEN o[1] ELSE d

EmptyStr == <<>>

\* ------------------------------------------------------------ results

\* Ok(CallbackData { code, state })
OkCallback(c, s) == [kind |-> "Ok", code |-> c, state |-> s, text |-> "", arg |-> EmptyStr]

\* Err(AnthropicAuthError::<kind>(format!(text, arg)))
Err(k, t, a) == [kind |-> k, code |-> EmptyStr, state |-> EmptyStr, text |-> t, arg |-> a]

NoResult == [kind |-> "None", code |-> EmptyStr, state |-> EmptyStr, text |-> "", arg |-> EmptyStr]

\* ------------------------------------------------------------ callback listener

VARIABLES
    expected_state,   \* ServerState.expected_state
    caller,           \* position of run_callback_server: "start", "waiting", "returned", "dropped"
    result,           \* value run_callback_server returned
    listener,         \* the TcpListener: "unbound", "bound", "released"
    serverTask,       \* the spawned axum::serve task: "none", "running", "terminated"
    txSlot,           \* ServerState.tx, the Mutex<Option<Sender>>: Some(sender) or None
    chan,             \* the oneshot channel: [st |-> "open" | "sent" | "closed", val]
    reqs,             \* inbound requests: [pc, params, outcome, page, took]
    deliveries,       \* history: the values tx.send put into the channel, in order
    takers            \* history: the requests whose take() got the sender, in order

lvars == <<expected_state, caller, result, listener, serverTask, txSlot, chan, reqs,
           deliveries, takers>>

VARIABLES
    overflow_checks,  \* whether the build panics on integer overflow (debug) or wraps (release)
    config,           \* AsyncOAuthClient.config
    call,             \* the call in progress: [op, pc, args, parsed, request, response, ...]
    outbox            \* the HTTP requests the call in progress has sent, in order

cvars == <<overflow_checks, config, call, outbox>>

\* A token set held by the application, and what its methods returned.
VARIABLES
    token_set,        \* a TokenSet: [access_token, refresh_token, expires_at]
    observed          \* the last method call on it: [op, now, panic, err, secs, flag, response]

tvars == <<token_set, observed>>

\* The flows handed out by start_flow.
VARIABLES
    flows,            \* the OAuthFlow values returned so far, with the random bytes drawn
    exchanged         \* per flow, how many token-exchange requests with its verifier
                      \* and state have left the client

fvars == <<flows, exchanged>>

vars == <<lvars, cvars, tvars, fvars>>

Requests == 1..MaxRequests

S1 == <<"s", "1">>

S2 == <<"s", "2">>

ExpectedStates == {EmptyStr, S1}

QueryCodes == {None, Some(<<"c">>)}

QueryStates == {None, Some(EmptyStr), Some(S1), Some(S2)}

QueryErrors == {None, Some(EmptyStr), Some(<<"d">>)}

\* CallbackQuery
CallbackQuery == [code : QueryCodes, state : QueryStates, error : QueryErrors]

NoQuery == [code |-> None, state |-> None, error |-> None]

\* A handler that reports success with an empty code when `code` is missing.
CallbackCodeOptional(params, expected) ==
    LET received_state == UnwrapOr(params.state, EmptyStr) IN
    IF IsSome(params.error)
    THEN [outcome |-> Err("OAuth", "OAuth error: {}", Unwrap(params.error)),
          page |-> "Authorization Failed: Error"]
    ELSE IF received_state # expected
    THEN [outcome |-> Err("OAuth", "State mismatch - possible CSRF attack", EmptyStr),
          page |-> "Authorization Failed: Security validation failed"]
    ELSE [outcome |-> OkCallback(UnwrapOr(params.code, EmptyStr), received_state),
          page |-> "Authorization Successful"]

\* A handler that validates the state before it looks at `error`.
CallbackStateFirst(params, expected) ==
    LET received_state == UnwrapOr(params.state, EmptyStr) IN
    IF received_state # expected
    THEN [outcome |-> Err("OAuth", "State mismatch - possible CSRF attack", EmptyStr),
          page |-> "Authorization Failed: Security validation failed"]
    ELSE IF IsSome(params.error)
    THEN [outcome |-> Err("OAuth", "OAuth error: {}", Unwrap(params.error)),
          page |-> "Authorization Failed: Error"]
    ELSE IF IsSome(params.code)
    THEN [outcome |-> OkCallback(Unwrap(params.code), received_state),
          page |-> "Authorization Successful"]
    ELSE [outcome |-> Err("InvalidAuthorizationCode", "", EmptyStr),
          page |-> "Authorization Failed: No authorization code received"]

\* handle_callback: the outcome it hands to tx.send and the page it renders.
HandleCallbackResult(params, expected) ==
    LET received_state == UnwrapOr(params.state, EmptyStr) IN
    IF IsSome(params.error)
    THEN [outcome |-> Err("OAuth", "OAuth error: {}", Unwrap(params.error)),
          page |-> "Authorization Failed: Error"]
    ELSE IF received_state # expected
    THEN [outcome |-> Err("OAuth", "State mismatch - possible CSRF attack", EmptyStr),
          page |-> "Authorization Failed: Security validation failed"]
    ELSE IF IsSome(params.code)
    THEN [outcome |-> OkCallback(Unwrap(params.code), received_state),
          page |-> "Authorization Successful"]
    ELSE [outcome |-> Err("InvalidAuthorizationCode", "", EmptyStr),
          page |-> "Authorization Failed: No authorization code received"]

\* A take that leaves the sender in the slot (as_ref / clone instead of take).
TakeLeavesSender(slot) == slot

\* Option::take leaves None in the slot.
SlotAfterTake(slot) == None

\* The receiver exists from oneshot::channel() until rx.await resolved or the
\* future of run_callback_server was dropped.
RxAlive == caller \in {"start", "waiting"}

\* Requests that were accepted and whose handler has not run yet; each holds a
\* clone of the Arc<ServerState>.
InFlight == {r \in Requests : reqs[r].pc = "accepted"}

\* The sender kept alive by another owner (a leaked Arc).
SenderNeverDropped(task, inflight, slot) == FALSE

\* The Arc<ServerState> (and the Sender in it) is dropped with its last holder:
\* the server task's Router and the in-flight connections.
SenderDropped(task, inflight, slot) ==
    task = "terminated" /\ inflight = {} /\ IsSome(slot)

FreshRequests ==
    [r \in Requests |-> [pc |-> "none", params |-> NoQuery, outcome |-> NoResult,
                         page |-> "", took |-> FALSE]]

\* TcpListener::bind succeeds; the server task is spawned; the caller waits on rx.
BindOk ==
    /\ caller = "start"
    /\ caller' = "waiting"
    /\ listener' = "bound"
    /\ serverTask' = "running"
    /\ UNCHANGED <<expected_state, result, txSlot, chan, reqs, deliveries, takers>>
    /\ UNCHANGED <<cvars, tvars, fvars>>

\* A bind failure reported only after the server task was spawned.
BindFailAfterSpawn ==
    /\ caller = "start"
    /\ caller' = "returned"
    /\ result' = Err("CallbackServer", "Failed to bind to {}: {}", EmptyStr)
    /\ serverTask' = "running"
    /\ UNCHANGED <<expected_state, listener, txSlot, chan, reqs, deliveries, takers>>
    /\ UNCHANGED <<cvars, tvars, fvars>>

\* TcpListener::bind fails: map_err(...)? returns; state (and tx in it) is dropped.
BindFail ==
    /\ caller = "start"
    /\ caller' = "returned"
    /\ result' = Err("CallbackServer", "Failed to bind to {}: {}", EmptyStr)
    /\ txSlot' = None
    /\ chan' = [chan EXCEPT !.st = "closed"]
    /\ UNCHANGED <<expected_state, listener, serverTask, reqs, deliveries, takers>>
    /\ UNCHANGED <<cvars, tvars, fvars>>

\* axum::serve accepts a connection carrying GET /callback?...
Accept(r) ==
    /\ serverTask = "running"
    /\ listener = "bound"
    /\ reqs[r].pc = "none"
    /\ \A p \in Requests : p < r => reqs[p].pc # "none"
    /\ \E q \in CallbackQuery :
           reqs' = [reqs EXCEPT ![r].pc = "accepted", ![r].params = q]
    /\ UNCHANGED <<expected_state, caller, result, listener, serverTask, txSlot, chan,
                   deliveries, takers>>
    /\ UNCHANGED <<cvars, tvars, fvars>>

\* handle_callback: state.tx.lock().await.take().map(|tx| tx.send(..)), then the page.
HandleCallback(r) ==
    /\ reqs[r].pc = "accepted"
    /\ LET h == HandleCallbackResult(reqs[r].params, expected_state)
           got == IsSome(txSlot)
           sent == got /\ RxAlive
       IN /\ txSlot' = IF got THEN SlotAfterTake(txSlot) ELSE txSlot
          /\ chan' = IF sent THEN [st |-> "sent", val |-> h.outcome]
                     ELSE IF got THEN [chan EXCEPT !.st = "closed"]
                     ELSE chan
          /\ deliveries' = IF sent THEN Append(deliveries, h.outcome) ELSE deliveries
          /\ takers' = IF got THEN Append(takers, r) ELSE takers
          /\ reqs' = [reqs EXCEPT ![r].pc = "responded", ![r].outcome = h.outcome,
                                  ![r].page = h.page, ![r].took = got]
    /\ UNCHANGED <<expected_state, caller, result, listener, serverTask>>
    /\ UNCHANGED <<cvars, tvars, fvars>>

\* The spawned task ends (axum::serve returned or .expect panicked): the listener
\* and the Router are dropped.
ServerTaskEnds ==
    /\ serverTask = "running"
    /\ serverTask' = "terminated"
    /\ listener' = "released"
    /\ IF SenderDropped("terminated", InFlight, txSlot)
       THEN /\ txSlot' = None
            /\ chan' = [chan EXCEPT !.st = "closed"]
       ELSE UNCHANGED <<txSlot, chan>>
    /\ UNCHANGED <<expected_state, caller, result, reqs, deliveries, takers>>
    /\ UNCHANGED <<cvars, tvars, fvars>>

\* What `match rx.await` returns.
RecvResult(c) ==
    IF c.st = "sent" THEN c.val
    ELSE Err("CallbackServer", "Server shut down unexpectedly", EmptyStr)

\* An rx.await that also resolves when a timer fires.
CanRecvOrTimeout == caller = "waiting"

\* rx.await resolves once a value was sent or the sender was dropped.
CanRecv == caller = "waiting" /\ chan.st \in {"sent", "closed"}

CallerRecv ==
    /\ CanRecv
    /\ caller' = "returned"
    /\ result' = RecvResult(chan)
    /\ UNCHANGED <<expected_state, listener, serverTask, txSlot, chan, reqs, deliveries,
                   takers>>
    /\ UNCHANGED <<cvars, tvars, fvars>>

\* The caller drops the future of run_callback_server (external timeout, select!).
CallerCancel ==
    /\ caller = "waiting"
    /\ caller' = "dropped"
    /\ UNCHANGED <<expected_state, result, listener, serverTask, txSlot, chan, reqs,
                   deliveries, takers>>
    /\ UNCHANGED <<cvars, tvars, fvars>>

NextListener ==
    \/ BindOk
    \/ BindFail
    \/ \E r \in Requests : Accept(r)
    \/ \E r \in Requests : HandleCallback(r)
    \/ ServerTaskEnds
    \/ CallerRecv
    \/ CallerCancel

\* ------------------------------------------------------------ u64 arithmetic

\* A u64 is four 16-bit limbs, most significant first.
Limb == 2^16

U64(n) == <<0, 0, n \div Limb, n % Limb>>

U64Max == <<Limb - 1, Limb - 1, Limb - 1, Limb - 1>>

\* a + b on u64: the wrapped sum and whether it overflowed.
AddU64(a, b) ==
    LET s4 == a[4] + b[4]
        s3 == a[3] + b[3] + (s4 \div Limb)
        s2 == a[2] + b[2] + (s3 \div Limb)
        s1 == a[1] + b[1] + (s2 \div Limb)
    IN [sum |-> <<s1 % Limb, s2 % Limb, s3 % Limb, s4 % Limb>>, overflow |-> s1 >= Limb]

\* a < b on u64
LtU64(a, b) == \E i \in 1..4 : a[i] < b[i] /\ \A j \in 1..(i - 1) : a[j] = b[j]

\* 2^64 - a, for a # 0
NegU64(a) == AddU64([i \in 1..4 |-> Limb - 1 - a[i]], U64(1)).sum

\* ------------------------------------------------------------ client: constants and inputs

\* validate_code: code.len() < 10
MinCodeLen == 10

\* validate_verifier: verifier.len() < 43 || verifier.len() > 128
MinVerifierLen == 43

MaxVerifierLen == 128

\* From<TokenResponse>: expires_in.unwrap_or(3600)
DefaultExpiresIn == 3600

\* TokenSet::validate: now + 31536000
OneYearSecs == 31536000

\* Seconds since UNIX_EPOCH at which the modelled calls run.
NowSecs == 1762300800

\* How far SystemTime::now() may have advanced between two reads within one call.
MaxClockSkew == 1

Clock == {AddU64(U64(NowSecs), U64(d)).sum : d \in 0..MaxClockSkew}

TOKEN_URL == "https://console.anthropic.com/v1/oauth/token"

API_KEY_URL == "https://api.anthropic.com/api/oauth/claude_cli/create_api_key"

REDIRECT_URI == "https://console.anthropic.com/oauth/code/callback"

\* OAuthConfig::default()
DefaultConfig == [client_id |-> "9d1c250a-e61b-44d9-88ed-5944d1962f5e",
                  redirect_uri |-> "http://localhost:1455/callback"]

\* OAuthConfigBuilder::redirect_port: format!("http://localhost:{}/callback", port)
RedirectPortUri(port) == "http://localhost:" \o ToString(port) \o "/callback"

\* What an application may have set on an OAuthConfigBuilder: nothing, its own
\* client id, a redirect URI given whole or by port.
ConfigBuilders ==
    [client_id : {None, Some("app-client-id")},
     redirect_uri : {None, Some("http://127.0.0.1:7777/done"), Some(RedirectPortUri(8080))}]

\* OAuthConfigBuilder::build
ConfigBuild(builder) ==
    [client_id |-> UnwrapOr(builder.client_id, DefaultConfig.client_id),
     redirect_uri |-> UnwrapOr(builder.redirect_uri, DefaultConfig.redirect_uri)]

\* The configurations a client can be constructed with.
Configs == {DefaultConfig} \cup {ConfigBuild(b) : b \in ConfigBuilders}

\* n bytes c
Rep(c, n) == [i \in 1..n |-> c]

Hash == <<"#">>

CodeLens == {0, 3, MinCodeLen - 1, MinCodeLen, MinCodeLen + 1}

Codes == {Rep("c", n) : n \in CodeLens}

ReturnedStates == {EmptyStr, S1, S2, S1 \o Hash \o S2}

\* What the caller passes as code_with_state: a bare code or "code#state".
PastedResponses == Codes \cup {c \o Hash \o st : c \in Codes, st \in ReturnedStates}

ClientExpectedStates == {EmptyStr, S1, S1 \o Hash \o S2}

VerifierLens == {0, MinVerifierLen - 1, MinVerifierLen, MaxVerifierLen, MaxVerifierLen + 1}

Verifiers == {Rep("v", n) : n \in VerifierLens}

RefreshTokens == {EmptyStr, <<"r">>}

AccessTokens == {EmptyStr, <<"a">>}

\* ------------------------------------------------------------ client: results

NoTokens == [access_token |-> EmptyStr, refresh_token |-> EmptyStr, expires_at |-> U64(0)]

NoRet == [kind |-> "None", text |-> "", detail |-> "", status |-> 0, hint |-> None,
          body |-> EmptyStr, tokens |-> NoTokens, key |-> EmptyStr]

\* Err(AnthropicAuthError::<kind>(text))
CErr(k, t) == [NoRet EXCEPT !.kind = k, !.text = t]

\* Ok(TokenSet)
COkTokens(t) == [NoRet EXCEPT !.kind = "Ok", !.tokens = t]

\* Ok(raw_key)
COkKey(k) == [NoRet EXCEPT !.kind = "Ok", !.key = k]

\* ------------------------------------------------------------ client: validators and builders

\* str::rfind('#'): the position of the last '#', if any.
FindLastHash(str) ==
    IF \E i \in 1..Len(str) : str[i] = "#"
    THEN Some(CHOOSE i \in 1..Len(str) :
                  str[i] = "#" /\ \A j \in (i + 1)..Len(str) : str[j] # "#")
    ELSE None

\* str::find('#'): the position of the first '#', if any (1-based here).
FindHash(str) ==
    IF \E i \in 1..Len(str) : str[i] = "#"
    THEN Some(CHOOSE i \in 1..Len(str) : str[i] = "#" /\ \A j \in 1..(i - 1) : str[j] # "#")
    ELSE None

\* A parse that takes the whole input as the code and leaves the state empty.
ParseWithoutExpectedState(code_with_state, expected) ==
    [ok |-> TRUE, code |-> code_with_state, state |-> EmptyStr, err |-> NoRet]

\* parse_code_and_state
ParseCodeAndState(code_with_state, expected) ==
    LET hash_pos == FindHash(code_with_state) IN
    IF IsSome(hash_pos)
    THEN LET code == SubSeq(code_with_state, 1, Unwrap(hash_pos) - 1)
             returned_state == SubSeq(code_with_state, Unwrap(hash_pos) + 1, Len(code_with_state))
         IN IF returned_state # expected
            THEN [ok |-> FALSE, code |-> EmptyStr, state |-> EmptyStr,
                  err |-> CErr("OAuth", "State mismatch - possible CSRF attack. Expected: {}, Got: {}")]
            ELSE [ok |-> TRUE, code |-> code, state |-> returned_state, err |-> NoRet]
    ELSE [ok |-> TRUE, code |-> code_with_state, state |-> expected, err |-> NoRet]

\* A validate_code without the minimum-length check.
ValidateCodeNonEmptyOnly(code) ==
    IF Len(code) = 0 THEN Some(CErr("InvalidAuthorizationCode", "")) ELSE None

\* validate_code
ValidateCode(code) ==
    IF Len(code) = 0 THEN Some(CErr("InvalidAuthorizationCode", ""))
    ELSE IF Len(code) < MinCodeLen THEN Some(CErr("InvalidAuthorizationCode", ""))
    ELSE None

\* validate_state
ValidateState(state) ==
    IF Len(state) = 0 THEN Some(CErr("OAuth", "State token is empty")) ELSE None

\* validate_verifier
ValidateVerifier(verifier) ==
    IF Len(verifier) = 0 THEN Some(CErr("OAuth", "PKCE verifier is empty"))
    ELSE IF Len(verifier) < MinVerifierLen \/ Len(verifier) > MaxVerifierLen
    THEN Some(CErr("OAuth", "PKCE verifier has invalid length (must be 43-128 characters)"))
    ELSE None

\* validate_access_token
ValidateAccessToken(token) ==
    IF Len(token) = 0 THEN Some(CErr("OAuth", "Access token is empty")) ELSE None

\* refresh_token: if refresh_token.is_empty()
ValidateRefreshToken(token) ==
    IF Len(token) = 0 THEN Some(CErr("OAuth", "Refresh token is empty")) ELSE None

NoRequest == [url |-> "", bearer |-> None, body |-> [grant_type |-> "none"]]

\* build_token_request, posted to TOKEN_URL
BuildTokenRequest(code, state, verifier, client_id) ==
    [url |-> TOKEN_URL, bearer |-> None,
     body |-> [code |-> code, state |-> state, grant_type |-> "authorization_code",
               client_id |-> client_id, redirect_uri |-> REDIRECT_URI,
               code_verifier |-> verifier]]

\* build_refresh_request, posted to TOKEN_URL
BuildRefreshRequest(refresh_token, client_id) ==
    [url |-> TOKEN_URL, bearer |-> None,
     body |-> [grant_type |-> "refresh_token", refresh_token |-> refresh_token,
               client_id |-> client_id]]

\* build_api_key_request, posted to API_KEY_URL with the bearer header
BuildApiKeyRequest(access_token) ==
    [url |-> API_KEY_URL, bearer |-> Some(access_token), body |-> [grant_type |-> "none"]]

\* s.contains(sub)
Contains(str, sub) ==
    \E i \in 1..(Len(str) - Len(sub) + 1) : SubSeq(str, i, i + Len(sub) - 1) = sub

WordCode == <<"c", "o", "d", "e">>

WordVerifier == <<"v", "e", "r", "i", "f", "i", "e", "r">>

WordCodeVerifier == WordCode \o <<"_">> \o WordVerifier

WordState == <<"s", "t", "a", "t", "e">>

\* A mapper that keeps status and body and gives no hint.
HttpErrorWithoutHint(status, body) ==
    [NoRet EXCEPT !.kind = "Http", !.status = status, !.hint = None, !.body = body]

\* create_http_error
CreateHttpError(status, body) ==
    LET hint ==
            IF status = 400
            THEN IF Contains(body, WordCode)
                 THEN Some("The authorization code may be invalid, expired, or already used. Please try the flow again.")
                 ELSE IF Contains(body, WordVerifier) \/ Contains(body, WordCodeVerifier)
                 THEN Some("The PKCE verifier doesn't match. Make sure you're using the verifier from the same flow.")
                 ELSE IF Contains(body, WordState)
                 THEN Some("The state parameter is invalid. This could indicate a security issue.")
                 ELSE Some("Bad request - check that all parameters are correct.")
            ELSE IF status = 401
            THEN Some("Authentication failed - the access token may be invalid or expired.")
            ELSE IF status = 403
            THEN Some("Access forbidden - you may not have permission to perform this action.")
            ELSE IF status = 404
            THEN Some("Endpoint not found - the API URL may have changed.")
            ELSE IF status = 429
            THEN Some("Rate limit exceeded - please wait before retrying.")
            ELSE IF status >= 500 /\ status <= 599
            THEN Some("Server error - this is an issue on Anthropic's side. Please try again later.")
            ELSE None
    IN [NoRet EXCEPT !.kind = "Http", !.status = status, !.hint = hint, !.body = body]

\* StatusCode::is_success
IsSuccess(status) == status >= 200 /\ status <= 299

\* ------------------------------------------------------------ client: token model

\* impl From<TokenResponse> for TokenSet, with SystemTime::now() = now. The u64
\* addition panics on overflow in a build with overflow checks and wraps otherwise.
TokenSetFrom(response, now, checks) ==
    LET r == AddU64(now, UnwrapOr(response.expires_in, U64(DefaultExpiresIn))) IN
    [panic |-> r.overflow /\ checks,
     tokens |-> [access_token |-> response.access_token,
                 refresh_token |-> UnwrapOr(response.refresh_token, EmptyStr),
                 expires_at |-> r.sum]]

\* validate without the one-year limit on expires_at.
ValidateNoFutureLimit(tokens, now, checks) ==
    IF Len(tokens.access_token) = 0 THEN [panic |-> FALSE, err |-> Some("access_token is empty")]
    ELSE IF Len(tokens.refresh_token) = 0
    THEN [panic |-> FALSE, err |-> Some("refresh_token is empty")]
    ELSE IF tokens.expires_at = U64(0) THEN [panic |-> FALSE, err |-> Some("expires_at is invalid")]
    ELSE [panic |-> FALSE, err |-> None]

\* TokenSet::validate, with SystemTime::now() = now
TokenSetValidate(tokens, now, checks) ==
    LET limit == AddU64(now, U64(OneYearSecs)) IN
    IF Len(tokens.access_token) = 0 THEN [panic |-> FALSE, err |-> Some("access_token is empty")]
    ELSE IF Len(tokens.refresh_token) = 0
    THEN [panic |-> FALSE, err |-> Some("refresh_token is empty")]
    ELSE IF tokens.expires_at = U64(0) THEN [panic |-> FALSE, err |-> Some("expires_at is invalid")]
    ELSE IF limit.overflow /\ checks THEN [panic |-> TRUE, err |-> None]
    ELSE IF LtU64(limit.sum, tokens.expires_at)
    THEN [panic |-> FALSE, err |-> Some("expires_at is too far in the future")]
    ELSE [panic |-> FALSE, err |-> None]

\* a - b on u64: the wrapped difference and whether it borrowed (a < b).
SubU64(a, b) ==
    LET d4 == a[4] - b[4]
        d3 == a[3] - b[3] - (IF d4 < 0 THEN 1 ELSE 0)
        d2 == a[2] - b[2] - (IF d3 < 0 THEN 1 ELSE 0)
        d1 == a[1] - b[1] - (IF d2 < 0 THEN 1 ELSE 0)
    IN [diff |-> <<(d1 + Limb) % Limb, (d2 + Limb) % Limb, (d3 + Limb) % Limb,
                   (d4 + Limb) % Limb>>,
        borrow |-> d1 < 0]

\* The margin of TokenSet::is_expired, in seconds.
ExpiryMarginSecs == 300

\* expires_at - now without the guard that keeps it from going below zero.
ExpiresInUnguarded(tokens, now) == SubU64(tokens.expires_at, now).diff

\* TokenSet::expires_in, in whole seconds, with SystemTime::now() = now
TokenSetExpiresIn(tokens, now) ==
    IF LtU64(now, tokens.expires_at) THEN SubU64(tokens.expires_at, now).diff ELSE U64(0)

\* TokenSet::is_expired: expires_in() <= 300 s
TokenSetIsExpired(tokens, now) ==
    ~LtU64(U64(ExpiryMarginSecs), TokenSetExpiresIn(tokens, now))

\* ------------------------------------------------------------ client: calls

NoArgs == [code_with_state |-> EmptyStr, expected_state |-> EmptyStr, verifier |-> EmptyStr,
           token |-> EmptyStr]

NoResponse == [net |-> "none", status |-> 0, body |-> EmptyStr, json |-> None]

NoCall == [op |-> "none", pc |-> "idle", args |-> NoArgs, parsed |-> None,
           request |-> NoRequest, response |-> NoResponse, received_at |-> U64(0),
           validated_at |-> U64(0), ret |-> NoRet]

\* Relative expiries a token response may carry (Option<u64>).
ExpiresIns ==
    {None, Some(U64(0)), Some(U64(2 * DefaultExpiresIn)), Some(U64(OneYearSecs)),
     Some(U64(OneYearSecs + 1)), Some(U64Max), Some(NegU64(U64(NowSecs)))}

\* TokenResponse
TokenResponses ==
    [access_token : {EmptyStr, <<"a">>},
     refresh_token : {None, Some(EmptyStr), Some(<<"r">>)},
     expires_in : ExpiresIns]

\* ApiKeyResponse
ApiKeyResponses == [raw_key : {EmptyStr, <<"k">>}]

\* Non-2xx statuses: each class of create_http_error, its range ends, and statuses
\* outside every class.
FailStatuses == {199, 302, 400, 401, 403, 404, 418, 429, 499, 500, 599, 600}

OkStatuses == {200, 201}

\* Response bodies of a failed request: none of the words create_http_error looks
\* for, or one of them.
ErrorBodies == {EmptyStr, WordCode, WordVerifier, WordCodeVerifier, WordState}

\* What the HTTP collaborator can answer: a transport error, a non-2xx status with
\* a body, or a 2xx status whose body does or does not deserialize to `payloads`.
HttpResponses(payloads) ==
    {[net |-> "error", status |-> 0, body |-> EmptyStr, json |-> None]}
    \cup {[net |-> "ok", status |-> st, body |-> b, json |-> None] :
              st \in FailStatuses, b \in ErrorBodies}
    \cup {[net |-> "ok", status |-> st, body |-> EmptyStr, json |-> j] :
              st \in OkStatuses, j \in {None} \cup {Some(x) : x \in payloads}}

\* A call that goes back to sending after a failed response.
RetryAfterFailure == "ready"

\* `return Err(..)` / `?` after a transport error or a non-2xx response.
PcAfterFailure == "done"


\* exchange_code up to `reqwest::Client::new()`: parse, validate, build the body.
ExchangeCode(code_with_state, expected, verifier) ==
    /\ call.pc = "idle"
    /\ outbox' = <<>>
    /\ LET p == ParseCodeAndState(code_with_state, expected)
           start == [NoCall EXCEPT !.op = "exchange_code",
                                   !.args = [code_with_state |-> code_with_state,
                                             expected_state |-> expected,
                                             verifier |-> verifier, token |-> EmptyStr]]
           fail(e) == [start EXCEPT !.pc = "done", !.ret = e]
       IN call' =
              IF ~p.ok THEN fail(p.err)
              ELSE LET parsed == [start EXCEPT !.parsed = Some([code |-> p.code, state |-> p.state])]
                       failed(e) == [parsed EXCEPT !.pc = "done", !.ret = e]
                   IN IF IsSome(ValidateCode(p.code)) THEN failed(Unwrap(ValidateCode(p.code)))
                      ELSE IF IsSome(ValidateState(p.state))
                      THEN failed(Unwrap(ValidateState(p.state)))
                      ELSE IF IsSome(ValidateVerifier(verifier))
                      THEN failed(Unwrap(ValidateVerifier(verifier)))
                      ELSE [parsed EXCEPT !.pc = "ready",
                                          !.request = BuildTokenRequest(p.code, p.state, verifier,
                                                                        config.client_id)]
    /\ UNCHANGED <<overflow_checks, config>>
    /\ UNCHANGED <<lvars, tvars, fvars>>

\* refresh_token up to `reqwest::Client::new()`
RefreshToken(refresh_token) ==
    /\ call.pc = "idle"
    /\ outbox' = <<>>
    /\ LET start == [NoCall EXCEPT !.op = "refresh_token", !.args.token = refresh_token]
       IN call' = IF IsSome(ValidateRefreshToken(refresh_token))
                  THEN [start EXCEPT !.pc = "done", !.ret = Unwrap(ValidateRefreshToken(refresh_token))]
                  ELSE [start EXCEPT !.pc = "ready",
                                     !.request = BuildRefreshRequest(refresh_token, config.client_id)]
    /\ UNCHANGED <<overflow_checks, config>>
    /\ UNCHANGED <<lvars, tvars, fvars>>

\* create_api_key up to `reqwest::Client::new()`
CreateApiKey(access_token) ==
    /\ call.pc = "idle"
    /\ outbox' = <<>>
    /\ LET start == [NoCall EXCEPT !.op = "create_api_key", !.args.token = access_token]
       IN call' = IF IsSome(ValidateAccessToken(access_token))
                  THEN [start EXCEPT !.pc = "done", !.ret = Unwrap(ValidateAccessToken(access_token))]
                  ELSE [start EXCEPT !.pc = "ready", !.request = BuildApiKeyRequest(access_token)]
    /\ UNCHANGED <<overflow_checks, config>>
    /\ UNCHANGED <<lvars, tvars, fvars>>

\* A token-exchange request that carries the verifier and the state of a flow.
CarriesFlow(request, flow) ==
    /\ request.url = TOKEN_URL
    /\ request.body.grant_type = "authorization_code"
    /\ request.body.code_verifier = flow.verifier
    /\ request.body.state = flow.state

\* client.post(url).json(&request_body).send(): the request leaves, the call awaits.
SendPost ==
    /\ call.pc = "ready"
    /\ outbox' = Append(outbox, call.request)
    /\ call' = [call EXCEPT !.pc = "awaiting"]
    /\ exchanged' = [i \in DOMAIN flows |->
                         exchanged[i] + IF CarriesFlow(call.request, flows[i]) THEN 1 ELSE 0]
    /\ UNCHANGED <<overflow_checks, config>>
    /\ UNCHANGED <<lvars, tvars, flows>>

\* exchange_code / refresh_token from the response on: status check, json(),
\* TokenSet::from at time t1, validate at time t2.
TokenReturn(c, response, t1, t2, checks) ==
    LET got == [c EXCEPT !.response = response] IN
    IF response.net = "error"
    THEN [got EXCEPT !.pc = PcAfterFailure, !.ret = CErr("Transport", "send")]
    ELSE IF ~IsSuccess(response.status)
    THEN [got EXCEPT !.pc = PcAfterFailure,
                     !.ret = CreateHttpError(response.status, response.body)]
    ELSE IF response.json = None
    THEN [got EXCEPT !.pc = "done", !.ret = CErr("Transport", "decode")]
    ELSE LET f == TokenSetFrom(Unwrap(response.json), t1, checks)
             v == TokenSetValidate(f.tokens, t2, checks)
             at == [got EXCEPT !.received_at = t1]
         IN IF f.panic THEN [at EXCEPT !.pc = "panicked"]
            ELSE IF v.panic THEN [at EXCEPT !.pc = "panicked", !.validated_at = t2]
            ELSE IF IsSome(v.err)
            THEN [at EXCEPT !.pc = "done", !.validated_at = t2,
                            !.ret = [CErr("OAuth", "Invalid token response: {}")
                                         EXCEPT !.detail = Unwrap(v.err)]]
            ELSE [at EXCEPT !.pc = "done", !.validated_at = t2, !.ret = COkTokens(f.tokens)]

TokenResponseArrives ==
    /\ call.pc = "awaiting"
    /\ call.op \in {"exchange_code", "refresh_token"}
    /\ \E response \in HttpResponses(TokenResponses), t1 \in Clock, t2 \in Clock :
           /\ ~LtU64(t2, t1)
           /\ call' = TokenReturn(call, response, t1, t2, overflow_checks)
    /\ UNCHANGED <<overflow_checks, config, outbox>>
    /\ UNCHANGED <<lvars, tvars, fvars>>

\* A create_api_key that hands back whatever key string a 2xx response holds.
ApiKeyReturnUnchecked(c, response) ==
    LET got == [c EXCEPT !.response = response] IN
    IF response.net = "error"
    THEN [got EXCEPT !.pc = PcAfterFailure, !.ret = CErr("Transport", "send")]
    ELSE IF ~IsSuccess(response.status)
    THEN [got EXCEPT !.pc = PcAfterFailure,
                     !.ret = CreateHttpError(response.status, response.body)]
    ELSE IF response.json = None
    THEN [got EXCEPT !.pc = "done", !.ret = CErr("Transport", "decode")]
    ELSE [got EXCEPT !.pc = "done", !.ret = COkKey(Unwrap(response.json).raw_key)]

\* create_api_key from the response on
ApiKeyReturn(c, response) ==
    LET got == [c EXCEPT !.response = response] IN
    IF response.net = "error"
    THEN [got EXCEPT !.pc = PcAfterFailure, !.ret = CErr("Transport", "send")]
    ELSE IF ~IsSuccess(response.status)
    THEN [got EXCEPT !.pc = PcAfterFailure,
                     !.ret = CreateHttpError(response.status, response.body)]
    ELSE IF response.json = None
    THEN [got EXCEPT !.pc = "done", !.ret = CErr("Transport", "decode")]
    ELSE IF Len(Unwrap(response.json).raw_key) = 0
    THEN [got EXCEPT !.pc = "done", !.ret = CErr("OAuth", "Received empty API key from server")]
    ELSE [got EXCEPT !.pc = "done", !.ret = COkKey(Unwrap(response.json).raw_key)]

ApiKeyResponseArrives ==
    /\ call.pc = "awaiting"
    /\ call.op = "create_api_key"
    /\ \E response \in HttpResponses(ApiKeyResponses) :
           call' = ApiKeyReturn(call, response)
    /\ UNCHANGED <<overflow_checks, config, outbox>>
    /\ UNCHANGED <<lvars, tvars, fvars>>

\* The call's future completed (or unwound): the caller has the result, the call's
\* temporaries are gone and the client can be called again.
CallEnds ==
    /\ call.pc \in {"done", "panicked"}
    /\ call' = NoCall
    /\ outbox' = <<>>
    /\ UNCHANGED <<overflow_checks, config>>
    /\ UNCHANGED <<lvars, tvars, fvars>>

NextClient ==
    \/ \E cws \in PastedResponses, e \in ClientExpectedStates, v \in Verifiers :
           ExchangeCode(cws, e, v)
    \/ \E t \in RefreshTokens : RefreshToken(t)
    \/ \E t \in AccessTokens : CreateApiKey(t)
    \/ SendPost
    \/ TokenResponseArrives
    \/ ApiKeyResponseArrives
    \/ CallEnds

\* ------------------------------------------------------------ client: start_flow

\* How many flows one client hands out in the model.
MaxFlows == 2

SCOPE == "org:create_api_key user:profile user:inference"

OAuthModes == {"Max", "Console"}

\* The bytes generate_random_state draws, and the bytes new_random_sha256 draws.
StateRandomLen == 32

PkceRandomLen == 32

\* What one draw of 32 bytes from the thread's generator may give. The generator can
\* return any bytes; the model takes all zero, all 255 and a mixed sequence.
RandomDraws(n) ==
    {[i \in 1..n |-> 0], [i \in 1..n |-> 255], [i \in 1..n |-> (37 * i + 11) % 256]}

\* The URL-safe base64 alphabet, values 0..63 at positions 1..64.
Base64UrlAlphabet ==
    <<"A", "B", "C", "D", "E", "F", "G", "H", "I", "J", "K", "L", "M",
      "N", "O", "P", "Q", "R", "S", "T", "U", "V", "W", "X", "Y", "Z",
      "a", "b", "c", "d", "e", "f", "g", "h", "i", "j", "k", "l", "m",
      "n", "o", "p", "q", "r", "s", "t", "u", "v", "w", "x", "y", "z",
      "0", "1", "2", "3", "4", "5", "6", "7", "8", "9", "-", "_">>

\* Bit p (0 = first) of a byte sequence, zero past its end.
BitAt(bytes, p) ==
    IF p >= 8 * Len(bytes) THEN 0 ELSE (bytes[(p \div 8) + 1] \div (2 ^ (7 - (p % 8)))) % 2

\* The j-th group of six bits (0 = first) of a byte sequence.
Sextet(bytes, j) ==
    32 * BitAt(bytes, 6 * j) + 16 * BitAt(bytes, 6 * j + 1) + 8 * BitAt(bytes, 6 * j + 2)
        + 4 * BitAt(bytes, 6 * j + 3) + 2 * BitAt(bytes, 6 * j + 4) + BitAt(bytes, 6 * j + 5)

\* base64 encoding that appends '=' up to a multiple of four characters.
Base64UrlPadded(bytes) ==
    LET n == (8 * Len(bytes) + 5) \div 6 IN
    [j \in 1..n |-> Base64UrlAlphabet[Sextet(bytes, j - 1) + 1]]
        \o [k \in 1..((4 - (n % 4)) % 4) |-> "="]

\* base64::engine::general_purpose::URL_SAFE_NO_PAD.encode
Base64UrlNoPad(bytes) ==
    LET n == (8 * Len(bytes) + 5) \div 6 IN
    [j \in 1..n |-> Base64UrlAlphabet[Sextet(bytes, j - 1) + 1]]

\* generate_random_state, for the bytes the generator gave
GenerateRandomState(random_bytes) == Base64UrlNoPad(random_bytes)

\* The verifier of PkceCodeChallenge::new_random_sha256 (oauth2 crate): 32 random
\* bytes in unpadded URL-safe base64.
PkceVerifier(random_bytes) == Base64UrlNoPad(random_bytes)

\* A stand-in for SHA-256, which is outside the model: a fixed function from a text
\* to 32 bytes, which reads a character through its place in the base64 alphabet
\* (0 for any other character).
Digest(text) ==
    LET idx(c) == IF \E k \in 1..64 : Base64UrlAlphabet[k] = c
                  THEN CHOOSE k \in 1..64 : Base64UrlAlphabet[k] = c
                  ELSE 0
    IN
    [i \in 1..32 |-> (5 * idx(text[((7 * i) % Len(text)) + 1]) + 3 * i) % 256]

\* The challenge of the PKCE method "plain": the verifier itself.
PlainChallenge(verifier) == verifier

\* The challenge of PkceCodeChallenge::new_random_sha256:
\* BASE64URL-ENCODE(SHA256(ASCII(verifier))), unpadded.
S256Challenge(verifier) == Base64UrlNoPad(Digest(verifier))

\* The bytes application/x-www-form-urlencoded leaves as they are.
FormSafe == {Base64UrlAlphabet[k] : k \in 1..64} \cup {"*", "."}

\* The percent codes of the other bytes a base64 text or a pasted value may hold.
PercentCoded == {"+", "/", "=", "#", "%"}

PercentCode(c) ==
    CASE c = "+" -> <<"%", "2", "B">>
      [] c = "/" -> <<"%", "2", "F">>
      [] c = "=" -> <<"%", "3", "D">>
      [] c = "#" -> <<"%", "2", "3">>
      [] c = "%" -> <<"%", "2", "5">>

\* form_urlencoded::byte_serialize, as append_pair applies it to a value
RECURSIVE FormEncode(_)
FormEncode(value) ==
    IF value = <<>> THEN <<>>
    ELSE (IF Head(value) \in FormSafe THEN <<Head(value)>>
          ELSE IF Head(value) = " " THEN <<"+">>
          ELSE PercentCode(Head(value))) \o FormEncode(Tail(value))

\* append_pair of a value the model keeps as one text (a literal or a configured
\* string): the pair carries its serialization.
FormEncodeText(text) == [form_urlencoded |-> text]

\* The host of the other mode.
BaseDomainSwapped(mode) == IF mode = "Max" THEN "console.anthropic.com" ELSE "claude.ai"

\* base_domain of start_flow
BaseDomain(mode) == IF mode = "Max" THEN "claude.ai" ELSE "console.anthropic.com"

Pair(name, value) == [name |-> name, value |-> value]

\* The authorization URL start_flow builds: https://{base_domain}/oauth/authorize
\* and its query pairs in the order they are appended.
AuthorizationUrl(mode, client_id, challenge, state) ==
    [scheme |-> "https",
     host |-> BaseDomain(mode),
     path |-> "/oauth/authorize",
     query |-> <<Pair("code", FormEncodeText("true")),
                 Pair("client_id", FormEncodeText(client_id)),
                 Pair("response_type", FormEncodeText("code")),
                 Pair("redirect_uri", FormEncodeText(REDIRECT_URI)),
                 Pair("scope", FormEncodeText(SCOPE)),
                 Pair("code_challenge", FormEncode(challenge)),
                 Pair("code_challenge_method", FormEncodeText("S256")),
                 Pair("state", FormEncode(state))>>]

\* PkceCodeChallenge::new_random_sha256 for each draw: the verifier and its challenge.
NewRandomSha256 ==
    [d \in RandomDraws(PkceRandomLen) |->
        [verifier |-> PkceVerifier(d), challenge |-> S256Challenge(PkceVerifier(d))]]

\* generate_random_state for each draw.
RandomState == [d \in RandomDraws(StateRandomLen) |-> GenerateRandomState(d)]

\* AsyncOAuthClient::start_flow(mode), with the two draws of the generator: one
\* inside new_random_sha256, one inside generate_random_state.
StartFlow(mode, pkce_random, state_random) ==
    /\ Len(flows) < MaxFlows
    /\ LET verifier == NewRandomSha256[pkce_random].verifier
           pkce_challenge == NewRandomSha256[pkce_random].challenge
           state == RandomState[state_random]
       IN flows' = Append(flows,
                       [authorization_url |->
                            AuthorizationUrl(mode, config.client_id, pkce_challenge, state),
                        verifier |-> verifier,
                        state |-> state,
                        mode |-> mode,
                        pkce_random |-> pkce_random,
                        state_random |-> state_random])
    /\ exchanged' = Append(exchanged, 0)
    /\ UNCHANGED <<lvars, cvars, tvars>>

NextFlow ==
    \E mode \in OAuthModes, pkce_random \in RandomDraws(PkceRandomLen),
       state_random \in RandomDraws(StateRandomLen) :
        StartFlow(mode, pkce_random, state_random)

\* ------------------------------------------------------------ client: a session

\* How many token-exchange requests with flow material the model follows in all.
MaxExchanges == 2

\* What the user may paste for a flow: a bare code, the code with the flow's state,
\* the code with another state.
SessionCodes(flow) ==
    {Rep("c", MinCodeLen), Rep("c", MinCodeLen) \o Hash \o flow.state,
     Rep("c", MinCodeLen) \o Hash \o S2}

\* The draws of the flows of a session: the model follows two verifier draws in one
\* mode and one of them in the other, each with a state draw that differs from it.
SessionDraws ==
    LET zeros == [i \in 1..PkceRandomLen |-> 0]
        ones == [i \in 1..PkceRandomLen |-> 255]
        mixed == [i \in 1..StateRandomLen |-> (37 * i + 11) % 256]
    IN {[mode |-> "Max", pkce_random |-> zeros, state_random |-> mixed],
        [mode |-> "Max", pkce_random |-> ones, state_random |-> mixed],
        [mode |-> "Console", pkce_random |-> zeros, state_random |-> mixed]}

RECURSIVE SumSeq(_)
SumSeq(seq) == IF seq = <<>> THEN 0 ELSE Head(seq) + SumSeq(Tail(seq))

\* The application calls exchange_code with the verifier and the state of a flow
\* it got from start_flow; nothing in the client keeps it from doing so again.
ExchangeFlow(i, code_with_state) ==
    /\ SumSeq(exchanged) < MaxExchanges
    /\ ExchangeCode(code_with_state, flows[i].state, flows[i].verifier)

NextSession ==
    \/ \E d \in SessionDraws : StartFlow(d.mode, d.pkce_random, d.state_random)
    \/ \E i \in DOMAIN flows : \E c \in SessionCodes(flows[i]) : ExchangeFlow(i, c)
    \/ \E t \in RefreshTokens : RefreshToken(t)
    \/ \E t \in AccessTokens : CreateApiKey(t)
    \/ SendPost
    \/ TokenResponseArrives
    \/ ApiKeyResponseArrives
    \/ CallEnds

\* ------------------------------------------------------------ listener, then exchange

\* The codes a redirect may carry in its query (axum decodes %23 to '#'): a code
\* without '#', a code with '#' in the middle, a code followed by '#' and S1.
RedirectCodes ==
    {Rep("c", MinCodeLen), Rep("c", MinCodeLen) \o Hash \o Rep("d", MinCodeLen),
     Rep("c", MinCodeLen) \o Hash \o S1}

RedirectQuery == [code : {Some(c) : c \in RedirectCodes}, state : {None, Some(S1), Some(S2)},
                  error : {None}]

\* The verifier of the flow the application started before it ran the listener.
RedirectVerifier == Rep("v", MinVerifierLen)

\* axum::serve accepts a connection carrying the provider's redirect.
AcceptRedirect(r) ==
    /\ serverTask = "running"
    /\ listener = "bound"
    /\ reqs[r].pc = "none"
    /\ \A p \in Requests : p < r => reqs[p].pc # "none"
    /\ \E q \in RedirectQuery :
           reqs' = [reqs EXCEPT ![r].pc = "accepted", ![r].params = q]
    /\ UNCHANGED <<expected_state, caller, result, listener, serverTask, txSlot, chan,
                   deliveries, takers>>
    /\ UNCHANGED <<cvars, tvars, fvars>>

\* The application's use of the listener: run_callback_server(port, &flow.state)
\* returned Ok(callback), and it calls
\* exchange_code(&callback.code, &callback.state, &flow.verifier).
ExchangeCallback ==
    /\ caller = "returned"
    /\ result.kind = "Ok"
    /\ ExchangeCode(result.code, result.state, RedirectVerifier)

NextRedirect ==
    \/ BindOk
    \/ BindFail
    \/ \E r \in Requests : AcceptRedirect(r)
    \/ \E r \in Requests : HandleCallback(r)
    \/ ServerTaskEnds
    \/ CallerRecv
    \/ CallerCancel
    \/ ExchangeCallback
    \/ SendPost
    \/ TokenResponseArrives
    \/ CallEnds

\* ------------------------------------------------------------ token set: methods

\* Absolute expiries a TokenSet may hold (its fields are public): zero, the epoch's
\* first second, values around the clock, around the is_expired margin, around the
\* one-year limit of validate, and the largest u64.
TokenExpiries ==
    {U64(0), U64(1), U64Max}
        \cup {U64(NowSecs + d) : d \in {0 - ExpiryMarginSecs - 1, 0 - 1, 0, 1, 2,
                                        ExpiryMarginSecs - 1, ExpiryMarginSecs,
                                        ExpiryMarginSecs + 1, ExpiryMarginSecs + 2,
                                        DefaultExpiresIn, OneYearSecs, OneYearSecs + 1,
                                        OneYearSecs + 2}}

TokenSets ==
    [access_token : AccessTokens, refresh_token : RefreshTokens, expires_at : TokenExpiries]

NoTokenResponse == [access_token |-> EmptyStr, refresh_token |-> None, expires_in |-> None]

NoObserved ==
    [op |-> "none", now |-> U64(0), panic |-> FALSE, err |-> None, secs |-> U64(0),
     flag |-> FALSE, response |-> NoTokenResponse]

\* token_set.validate()
TokenValidate(now) ==
    /\ LET v == TokenSetValidate(token_set, now, overflow_checks) IN
           observed' = [NoObserved EXCEPT !.op = "validate", !.now = now,
                                          !.panic = v.panic, !.err = v.err]
    /\ UNCHANGED <<token_set, lvars, cvars, fvars>>

\* token_set.expires_in()
TokenExpiresIn(now) ==
    /\ observed' = [NoObserved EXCEPT !.op = "expires_in", !.now = now,
                                      !.secs = TokenSetExpiresIn(token_set, now)]
    /\ UNCHANGED <<token_set, lvars, cvars, fvars>>

\* token_set.is_expired()
TokenIsExpired(now) ==
    /\ observed' = [NoObserved EXCEPT !.op = "is_expired", !.now = now,
                                      !.secs = TokenSetExpiresIn(token_set, now),
                                      !.flag = TokenSetIsExpired(token_set, now)]
    /\ UNCHANGED <<token_set, lvars, cvars, fvars>>

\* TokenSet::from(response): the application keeps the converted token set, unless
\* the conversion panicked.
TokenFromResponse(response, now) ==
    /\ LET c == TokenSetFrom(response, now, overflow_checks) IN
           /\ token_set' = IF c.panic THEN token_set ELSE c.tokens
           /\ observed' = [NoObserved EXCEPT !.op = "from", !.now = now,
                                             !.panic = c.panic, !.response = response]
    /\ UNCHANGED <<lvars, cvars, fvars>>

NextToken ==
    \/ \E now \in Clock : TokenValidate(now)
    \/ \E now \in Clock : TokenExpiresIn(now)
    \/ \E now \in Clock : TokenIsExpired(now)
    \/ \E response \in TokenResponses, now \in Clock : TokenFromResponse(response, now)

\* ------------------------------------------------------------ specifications

\* The listener alone; no client call is made.
InitListenerOnly ==
    /\ expected_state \in ExpectedStates
    /\ caller = "start"
    /\ result = NoResult
    /\ listener = "unbound"
    /\ serverTask = "none"
    /\ txSlot = Some("tx")
    /\ chan = [st |-> "open", val |-> NoResult]
    /\ reqs = FreshRequests
    /\ deliveries = <<>>
    /\ takers = <<>>
    /\ overflow_checks = FALSE
    /\ config = DefaultConfig
    /\ call = NoCall
    /\ outbox = <<>>
    /\ token_set = NoTokens
    /\ observed = NoObserved
    /\ flows = <<>>
    /\ exchanged = <<>>

SpecListener == InitListenerOnly /\ [][NextListener]_vars

\* The client alone; no listener is started.
InitClientOnly ==
    /\ expected_state = S1
    /\ caller = "start"
    /\ result = NoResult
    /\ listener = "unbound"
    /\ serverTask = "none"
    /\ txSlot = Some("tx")
    /\ chan = [st |-> "open", val |-> NoResult]
    /\ reqs = FreshRequests
    /\ deliveries = <<>>
    /\ takers = <<>>
    /\ overflow_checks \in BOOLEAN
    /\ config \in Configs
    /\ call = NoCall
    /\ outbox = <<>>
    /\ token_set = NoTokens
    /\ observed = NoObserved
    /\ flows = <<>>
    /\ exchanged = <<>>

SpecClient == InitClientOnly /\ [][NextClient]_vars

\* A token set and its methods alone.
InitTokenOnly ==
    /\ expected_state = S1
    /\ caller = "start"
    /\ result = NoResult
    /\ listener = "unbound"
    /\ serverTask = "none"
    /\ txSlot = Some("tx")
    /\ chan = [st |-> "open", val |-> NoResult]
    /\ reqs = FreshRequests
    /\ deliveries = <<>>
    /\ takers = <<>>
    /\ overflow_checks \in BOOLEAN
    /\ config = DefaultConfig
    /\ call = NoCall
    /\ outbox = <<>>
    /\ token_set \in TokenSets
    /\ observed = NoObserved
    /\ flows = <<>>
    /\ exchanged = <<>>

SpecToken == InitTokenOnly /\ [][NextToken]_vars

\* start_flow alone, on one client.
InitFlowOnly ==
    /\ expected_state = S1
    /\ caller = "start"
    /\ result = NoResult
    /\ listener = "unbound"
    /\ serverTask = "none"
    /\ txSlot = Some("tx")
    /\ chan = [st |-> "open", val |-> NoResult]
    /\ reqs = FreshRequests
    /\ deliveries = <<>>
    /\ takers = <<>>
    /\ overflow_checks = FALSE
    /\ config \in Configs
    /\ call = NoCall
    /\ outbox = <<>>
    /\ token_set = NoTokens
    /\ observed = NoObserved
    /\ flows = <<>>
    /\ exchanged = <<>>

SpecFlow == InitFlowOnly /\ [][NextFlow]_vars

\* One client over a session: flows are started, and their material is used in
\* exchange_code; tokens are refreshed and keys issued.
InitSession ==
    /\ expected_state = S1
    /\ caller = "start"
    /\ result = NoResult
    /\ listener = "unbound"
    /\ serverTask = "none"
    /\ txSlot = Some("tx")
    /\ chan = [st |-> "open", val |-> NoResult]
    /\ reqs = FreshRequests
    /\ deliveries = <<>>
    /\ takers = <<>>
    /\ overflow_checks = FALSE
    /\ config = DefaultConfig
    /\ call = NoCall
    /\ outbox = <<>>
    /\ token_set = NoTokens
    /\ observed = NoObserved
    /\ flows = <<>>
    /\ exchanged = <<>>

SpecSession == InitSession /\ [][NextSession]_vars

\* The listener and the client of one application: the outcome the listener hands
\* back is what exchange_code is called with.
InitRedirect ==
    /\ expected_state \in ExpectedStates
    /\ caller = "start"
    /\ result = NoResult
    /\ listener = "unbound"
    /\ serverTask = "none"
    /\ txSlot = Some("tx")
    /\ chan = [st |-> "open", val |-> NoResult]
    /\ reqs = FreshRequests
    /\ deliveries = <<>>
    /\ takers = <<>>
    /\ overflow_checks = FALSE
    /\ config = DefaultConfig
    /\ call = NoCall
    /\ outbox = <<>>
    /\ token_set = NoTokens
    /\ observed = NoObserved
    /\ flows = <<>>
    /\ exchanged = <<>>

SpecRedirect == InitRedirect /\ [][NextRedirect]_vars

\* ------------------------------------------------------------ claims: callback listener

StateMismatchErr == Err("OAuth", "State mismatch - possible CSRF attack", EmptyStr)

ShutdownErr == Err("CallbackServer", "Server shut down unexpectedly", EmptyStr)

Responded(r) == reqs[r].pc = "responded"

\* C1: for one listener instance and any interleaving of inbound requests, at most
\* one outcome is ever put into the channel; it is the outcome of the first request
\* whose take() got the sender; a later request gets no sender, and neither the
\* channel's value nor the result the caller received differs from that outcome.
C1_AtMostOneDelivery ==
    /\ Len(deliveries) <= 1
    /\ Len(takers) <= 1
    /\ \A r \in Requests : (Responded(r) /\ reqs[r].took) => takers = <<r>>
    /\ deliveries # <<>> =>
           /\ takers # <<>>
           /\ deliveries[1] = reqs[takers[1]].outcome
           /\ chan = [st |-> "sent", val |-> deliveries[1]]
           /\ caller = "returned" => result = deliveries[1]
    /\ (caller = "returned" /\ result.kind # "CallbackServer") => deliveries = <<result>>

\* C1 witness: two requests with different outcomes were handled, the first taker's
\* outcome reached the caller and the other request got no sender.
C1_Witness ==
    /\ caller = "returned"
    /\ Len(deliveries) = 1
    /\ \E r, q \in Requests :
           /\ Responded(r) /\ Responded(q)
           /\ reqs[r].took /\ ~reqs[q].took
           /\ reqs[q].outcome # reqs[r].outcome
           /\ result = reqs[r].outcome

\* C2: a handled request with no `error` whose `state` is absent or differs from
\* expected_state has the state-mismatch outcome, for every expected_state.
C2_StateMismatchAlways ==
    \A r \in Requests :
        ( /\ Responded(r)
          /\ reqs[r].params.error = None
          /\ \/ reqs[r].params.state = None
             \/ Unwrap(reqs[r].params.state) # expected_state )
        => reqs[r].outcome = StateMismatchErr

\* C3: the delivered outcome is Succeeded exactly when the request that took the
\* sender carries no `error`, a `state` equal to expected_state and a `code`; the
\* delivered state is expected_state and the delivered code is the request's code;
\* a Succeeded result of run_callback_server has state = expected_state.
C3_SucceededIff ==
    /\ deliveries # <<>> =>
           LET p == reqs[takers[1]].params
               d == deliveries[1]
           IN /\ d.kind = "Ok" <=>
                     /\ p.error = None
                     /\ p.state = Some(expected_state)
                     /\ IsSome(p.code)
              /\ d.kind = "Ok" => d = OkCallback(Unwrap(p.code), expected_state)
    /\ (caller = "returned" /\ result.kind = "Ok") => result.state = expected_state

\* C4: a handled request that carries `error` has the provider-denied outcome with
\* that error reason, whatever its `state` and `code`; it is never the
\* state-mismatch outcome nor success, and it is what the caller gets when that
\* request took the sender.
C4_ErrorIsProviderDenied ==
    \A r \in Requests :
        (Responded(r) /\ IsSome(reqs[r].params.error)) =>
            /\ reqs[r].outcome = Err("OAuth", "OAuth error: {}", Unwrap(reqs[r].params.error))
            /\ reqs[r].outcome # StateMismatchErr
            /\ reqs[r].page = "Authorization Failed: Error"
            /\ (reqs[r].took /\ deliveries # <<>>) => deliveries[1] = reqs[r].outcome

\* C4 witness: a denial with a wrong state and a code present was delivered to the
\* caller as provider-denied.
C4_Witness ==
    \E r \in Requests :
        /\ Responded(r)
        /\ IsSome(reqs[r].params.error)
        /\ IsSome(reqs[r].params.code)
        /\ IsSome(reqs[r].params.state)
        /\ Unwrap(reqs[r].params.state) # expected_state
        /\ reqs[r].took
        /\ caller = "returned"
        /\ result = Err("OAuth", "OAuth error: {}", Unwrap(reqs[r].params.error))

C8_ShutdownReported ==
    /\ (serverTask = "terminated" /\ deliveries = <<>> /\ InFlight = {} /\ caller = "waiting")
           => ENABLED CallerRecv
    /\ (serverTask = "terminated" /\ deliveries = <<>> /\ caller = "returned")
           => /\ result = ShutdownErr
              /\ result.kind \notin {"OAuth", "Ok", "InvalidAuthorizationCode"}

\* C8 witness: the server task ended before any request was handled and the caller
\* returned the shutdown error.
C8_Witness ==
    /\ serverTask = "terminated"
    /\ deliveries = <<>>
    /\ takers = <<>>
    /\ caller = "returned"
    /\ result = ShutdownErr

\* ------------------------------------------------------------ claims: client

CsrfMismatchText == "State mismatch - possible CSRF attack. Expected: {}, Got: {}"

Started(op) == call.op = op /\ call.pc # "idle"

\* C5: when the response passed to exchange_code contains '#', it is split at the
\* first '#': the bytes before it are the code, all bytes after it (further '#'
\* included) are the returned state. If the returned state differs from
\* expected_state the call has ended with the CSRF-mismatch error, whatever the code
\* is, and has sent no request; if it is equal, parsing yielded (code, state).
C5_SplitAtFirstHash ==
    Started("exchange_code") =>
        LET str == call.args.code_with_state IN
        \A i \in 1..Len(str) :
            (str[i] = "#" /\ \A j \in 1..(i - 1) : str[j] # "#") =>
                LET before == SubSeq(str, 1, i - 1)
                    after == SubSeq(str, i + 1, Len(str))
                IN IF after # call.args.expected_state
                   THEN /\ call.pc = "done"
                        /\ call.ret = CErr("OAuth", CsrfMismatchText)
                        /\ call.parsed = None
                        /\ outbox = <<>>
                   ELSE call.parsed = Some([code |-> before, state |-> after])

\* C5 witness: "ccc#s1#s2" against expected state "s1": a too-short code, a returned
\* state "s1#s2" that differs, the CSRF-mismatch error and nothing sent.
C5_Witness ==
    /\ Started("exchange_code")
    /\ call.args.code_with_state = Rep("c", 3) \o Hash \o S1 \o Hash \o S2
    /\ call.args.expected_state = S1
    /\ call.pc = "done"
    /\ call.ret = CErr("OAuth", CsrfMismatchText)
    /\ outbox = <<>>

\* C6: a request has been sent only by a call all of whose input checks passed:
\* for exchange_code the code has at least 10 bytes, the state is non-empty and the
\* verifier has 43..128 bytes; for refresh_token and create_api_key the token is
\* non-empty. A call with an input that fails a check has ended with an error.
C6_ValidationBeforeNetwork ==
    LET codeOk == IsSome(call.parsed) /\ Len(Unwrap(call.parsed).code) >= MinCodeLen
        stateOk == IsSome(call.parsed) /\ Len(Unwrap(call.parsed).state) >= 1
        verifierOk == /\ Len(call.args.verifier) >= MinVerifierLen
                      /\ Len(call.args.verifier) <= MaxVerifierLen
        inputsOk == IF call.op = "exchange_code" THEN codeOk /\ stateOk /\ verifierOk
                    ELSE Len(call.args.token) >= 1
        sentOk(req) ==
            IF call.op = "exchange_code"
            THEN /\ Len(req.body.code) >= MinCodeLen
                 /\ Len(req.body.state) >= 1
                 /\ Len(req.body.code_verifier) >= MinVerifierLen
                 /\ Len(req.body.code_verifier) <= MaxVerifierLen
            ELSE IF call.op = "refresh_token" THEN Len(req.body.refresh_token) >= 1
            ELSE Len(UnwrapOr(req.bearer, EmptyStr)) >= 1
    IN /\ (call.pc \in {"ready", "awaiting"} \/ outbox # <<>>) => inputsOk
       /\ \A k \in 1..Len(outbox) : sentOk(outbox[k])
       /\ (call.op # "none" /\ call.pc # "idle" /\ ~inputsOk) =>
              /\ call.pc = "done"
              /\ call.ret.kind \in {"OAuth", "InvalidAuthorizationCode"}
              /\ call.response = NoResponse
              /\ outbox = <<>>

\* C6 witness: exchange_code with a good code and state and a verifier of 129 bytes
\* ended with an error and sent nothing.
C6_Witness ==
    /\ Started("exchange_code")
    /\ IsSome(call.parsed)
    /\ Len(Unwrap(call.parsed).code) >= MinCodeLen
    /\ Len(Unwrap(call.parsed).state) >= 1
    /\ Len(call.args.verifier) = MaxVerifierLen + 1
    /\ call.pc = "done"
    /\ call.ret.kind = "OAuth"
    /\ outbox = <<>>

FailedResponse(r) == r.net = "error" \/ (r.net = "ok" /\ ~IsSuccess(r.status))

\* C9: a call has sent at most one request, and once it got a transport error or a
\* non-2xx response it has ended with an error, with that one request sent.
C9_AtMostOnePost ==
    /\ Len(outbox) <= 1
    /\ FailedResponse(call.response) =>
           /\ call.pc = "done"
           /\ call.ret.kind \in {"Transport", "Http"}
           /\ call.ret.kind = "Http" => call.ret.status = call.response.status
           /\ Len(outbox) = 1

\* C9 witness: a call answered 500 ended with the HTTP error after one request.
C9_Witness ==
    /\ call.op \in {"exchange_code", "refresh_token", "create_api_key"}
    /\ call.response.net = "ok"
    /\ call.response.status = 500
    /\ call.pc = "done"
    /\ call.ret.kind = "Http"
    /\ Len(outbox) = 1

\* A relative expiry that lies more than a year ahead however the clock advanced
\* within the call.
NonsensicalExpiry(e) == IsSome(e) /\ LtU64(U64(OneYearSecs + MaxClockSkew), Unwrap(e))

\* C10: exchange_code and refresh_token answered 2xx with a token response whose
\* access token is empty, whose refresh token is empty or absent, or whose expiry
\* is nonsensical end with the validation error, and a TokenSet they return has
\* non-empty access and refresh tokens.
C10_ValidatedTokenSet ==
    ( /\ call.op \in {"exchange_code", "refresh_token"}
      /\ call.response.net = "ok"
      /\ IsSuccess(call.response.status)
      /\ IsSome(call.response.json) )
    => LET r == Unwrap(call.response.json) IN
       /\ ( \/ Len(r.access_token) = 0
            \/ Len(UnwrapOr(r.refresh_token, EmptyStr)) = 0
            \/ NonsensicalExpiry(r.expires_in) )
          => /\ call.pc = "done"
             /\ call.ret.kind = "OAuth"
             /\ call.ret.text = "Invalid token response: {}"
       /\ call.ret.kind = "Ok" =>
              /\ Len(call.ret.tokens.access_token) >= 1
              /\ Len(call.ret.tokens.refresh_token) >= 1

\* ------------------------------------------------------------ claims: token set

Validated == observed.op = "validate" /\ ~observed.panic

Accepted == Validated /\ observed.err = None

\* now + 1 year, for the clock values of the model (no overflow there)
OneYearAfter(now) == AddU64(now, U64(OneYearSecs)).sum

\* C11: validate() accepts a token set only if both token strings are non-empty and
\* expires_at lies in [now, now + 1 year] at validation time; a non-zero expires_at
\* that is already in the past is not accepted.
C11_AcceptedOnlyInWindow ==
    Accepted =>
        /\ Len(token_set.access_token) >= 1
        /\ Len(token_set.refresh_token) >= 1
        /\ ~LtU64(token_set.expires_at, observed.now)
        /\ ~LtU64(OneYearAfter(observed.now), token_set.expires_at)

\* C12: validate() rejects an empty access token, an empty refresh token,
\* expires_at = 0 and expires_at more than 31536000 s after now, each with its own
\* message, and accepts non-empty tokens with expires_at = now + 3600.
C12_ValidateRejectsAndAccepts ==
    Validated =>
        /\ Len(token_set.access_token) = 0 => observed.err = Some("access_token is empty")
        /\ Len(token_set.refresh_token) = 0 => IsSome(observed.err)
        /\ (Len(token_set.access_token) >= 1 /\ Len(token_set.refresh_token) = 0)
               => observed.err = Some("refresh_token is empty")
        /\ token_set.expires_at = U64(0) => IsSome(observed.err)
        /\ LtU64(OneYearAfter(observed.now), token_set.expires_at) => IsSome(observed.err)
        /\ (/\ Len(token_set.access_token) >= 1
            /\ Len(token_set.refresh_token) >= 1
            /\ LtU64(OneYearAfter(observed.now), token_set.expires_at))
               => observed.err = Some("expires_at is too far in the future")
        /\ (/\ Len(token_set.access_token) >= 1
            /\ Len(token_set.refresh_token) >= 1
            /\ token_set.expires_at = AddU64(observed.now, U64(DefaultExpiresIn)).sum)
               => observed.err = None

\* validate() has rejected an expiry one second past the one-year limit, for tokens
\* that are otherwise well formed.
C12_Witness ==
    /\ Validated
    /\ Len(token_set.access_token) >= 1
    /\ Len(token_set.refresh_token) >= 1
    /\ token_set.expires_at = AddU64(OneYearAfter(observed.now), U64(1)).sum
    /\ observed.err = Some("expires_at is too far in the future")

\* C13: for every expires_at and every current time, expires_in() is
\* max(0, expires_at - now): zero when expires_at <= now (no underflow), and
\* otherwise the d with now + d = expires_at; is_expired() is true exactly when
\* expires_at <= now + 300, which includes an expiry already past, and false otherwise.
C13_RemainingTime ==
    /\ observed.op \in {"expires_in", "is_expired"} =>
           IF LtU64(observed.now, token_set.expires_at)
           THEN AddU64(observed.now, observed.secs)
                    = [sum |-> token_set.expires_at, overflow |-> FALSE]
           ELSE observed.secs = U64(0)
    /\ observed.op = "is_expired" =>
           (observed.flag <=>
                ~LtU64(AddU64(observed.now, U64(300)).sum, token_set.expires_at))

\* is_expired() was asked about a non-zero expiry that is already past: no time
\* is left and the token set counts as expired.
C13_Witness ==
    /\ observed.op = "is_expired"
    /\ token_set.expires_at # U64(0)
    /\ LtU64(token_set.expires_at, observed.now)
    /\ observed.secs = U64(0)
    /\ observed.flag

\* C14: converting a token response received at time T with expires_in = e gives a
\* token set with expires_at = T + e for every u64 e: the conversion completes, the
\* sum does not wrap, expires_at is never smaller than T, and the access token is
\* copied unchanged.
C14_ExpiresAtIsSum ==
    (observed.op = "from" /\ IsSome(observed.response.expires_in)) =>
        /\ ~observed.panic
        /\ token_set.access_token = observed.response.access_token
        /\ ~LtU64(token_set.expires_at, observed.now)
        /\ SubU64(token_set.expires_at, observed.now).diff
               = Unwrap(observed.response.expires_in)

\* ------------------------------------------------------------ claims: start_flow

UrlSafeChars == {Base64UrlAlphabet[k] : k \in 1..64}

\* An unpadded URL-safe base64 text of 32 bytes: 43 characters of the alphabet.
IsToken32(text) == Len(text) = 43 /\ \A k \in 1..Len(text) : text[k] \in UrlSafeChars

\* C15 as claimed: every flow's pkce_verifier has 43..128 characters and its
\* csrf_state is a 32-byte URL-safe unpadded token that is never equal to the
\* pkce_verifier.
C15_StateNeverEqualsVerifier ==
    \A i \in DOMAIN flows :
        /\ Len(flows[i].verifier) >= MinVerifierLen
        /\ Len(flows[i].verifier) <= MaxVerifierLen
        /\ IsToken32(flows[i].state)
        /\ flows[i].state # flows[i].verifier

\* C15: in either mode and after any number of earlier start_flow calls, every
\* flow's pkce_verifier has 43..128 characters, and its csrf_state is a 32-byte
\* URL-safe unpadded token that comes from a draw of its own: it is the same for the
\* same drawn bytes whatever the verifier is, and it equals the pkce_verifier only
\* when the two draws gave the same 32 bytes.
C15_FlowSecrets ==
    \A i \in DOMAIN flows :
        /\ flows[i].mode \in OAuthModes
        /\ Len(flows[i].verifier) >= MinVerifierLen
        /\ Len(flows[i].verifier) <= MaxVerifierLen
        /\ IsToken32(flows[i].state)
        /\ \A j \in DOMAIN flows :
               (flows[j].state_random = flows[i].state_random)
                   <=> (flows[j].state = flows[i].state)
        /\ flows[i].state = flows[i].verifier
               => flows[i].state_random = flows[i].pkce_random

\* A second flow, in the other mode than the first, whose two draws differ and
\* whose state and verifier differ.
C15_Witness ==
    /\ Len(flows) >= 2
    /\ flows[1].mode # flows[2].mode
    /\ flows[2].state_random # flows[2].pkce_random
    /\ flows[2].state # flows[2].verifier
    /\ flows[2].state # flows[1].state

\* Decoding of an application/x-www-form-urlencoded value.
RECURSIVE FormDecode(_)
FormDecode(enc) ==
    IF enc = <<>> THEN <<>>
    ELSE IF Head(enc) = "+" THEN <<" ">> \o FormDecode(Tail(enc))
    ELSE IF Head(enc) = "%"
    THEN <<CHOOSE c \in PercentCoded : PercentCode(c) = SubSeq(enc, 1, 3)>>
             \o FormDecode(SubSeq(enc, 4, Len(enc)))
    ELSE <<Head(enc)>> \o FormDecode(Tail(enc))

\* The values a URL's query carries under a name, as serialized.
QueryValues(url, name) ==
    {url.query[k].value : k \in {n \in DOMAIN url.query : url.query[n].name = name}}

\* C16: start_flow(Max) builds its URL on host claude.ai and start_flow(Console) on
\* host console.anthropic.com; the URL's one `state` parameter decodes to the flow's
\* state, its one `code_challenge` parameter decodes to the S256 challenge of the
\* flow's verifier, and code_challenge_method is S256.
C16_UrlMatchesFlow ==
    \A i \in DOMAIN flows :
        LET url == flows[i].authorization_url IN
        /\ url.scheme = "https"
        /\ url.path = "/oauth/authorize"
        /\ flows[i].mode = "Max" => url.host = "claude.ai"
        /\ flows[i].mode = "Console" => url.host = "console.anthropic.com"
        /\ {FormDecode(v) : v \in QueryValues(url, "state")} = {flows[i].state}
        /\ {FormDecode(v) : v \in QueryValues(url, "code_challenge")}
               = {S256Challenge(flows[i].verifier)}
        /\ QueryValues(url, "code_challenge_method") = {FormEncodeText("S256")}
        /\ Cardinality({n \in DOMAIN url.query :
                            url.query[n].name \in {"state", "code_challenge",
                                                   "code_challenge_method"}}) = 3

\* One client has handed out a flow in each mode, each on its own host.
C16_Witness ==
    /\ Len(flows) >= 2
    /\ flows[1].mode = "Max"
    /\ flows[1].authorization_url.host = "claude.ai"
    /\ flows[2].mode = "Console"
    /\ flows[2].authorization_url.host = "console.anthropic.com"
    /\ flows[2].verifier # flows[1].verifier

\* ------------------------------------------------------------ claims: bare code

\* C17: when the response passed to exchange_code contains no '#', the whole input
\* is the code and the caller's expected_state is its state, with no comparison: the
\* call never ends with the CSRF-mismatch error; if the code has at least 10 bytes,
\* expected_state is non-empty and the verifier has 43..128 bytes, the token request
\* carries that code and expected_state as its state; otherwise the call has ended
\* with an input error and nothing was sent.
C17_BareCodeTrusted ==
    LET str == call.args.code_with_state
        expected == call.args.expected_state
        valid == /\ Len(str) >= MinCodeLen
                 /\ Len(expected) >= 1
                 /\ Len(call.args.verifier) >= MinVerifierLen
                 /\ Len(call.args.verifier) <= MaxVerifierLen
    IN (Started("exchange_code") /\ \A i \in 1..Len(str) : str[i] # "#") =>
           /\ call.parsed = Some([code |-> str, state |-> expected])
           /\ call.ret # CErr("OAuth", CsrfMismatchText)
           /\ \A k \in DOMAIN outbox :
                  outbox[k].body.code = str /\ outbox[k].body.state = expected
           /\ IF valid
              THEN (IF call.pc = "ready"
                    THEN call.request.body.code = str /\ call.request.body.state = expected
                    ELSE Len(outbox) = 1)
              ELSE /\ call.pc = "done"
                   /\ outbox = <<>>
                   /\ call.ret.kind \in {"InvalidAuthorizationCode", "OAuth"}

\* A bare ten-byte code with the expected state "s1#s2", which no returned state
\* could have been compared with, has gone out in the token request.
C17_Witness ==
    /\ Started("exchange_code")
    /\ call.args.code_with_state = Rep("c", MinCodeLen)
    /\ call.args.expected_state = S1 \o Hash \o S2
    /\ Len(outbox) = 1
    /\ outbox[1].url = TOKEN_URL
    /\ outbox[1].body.code = Rep("c", MinCodeLen)
    /\ outbox[1].body.state = S1 \o Hash \o S2

\* ------------------------------------------------------------ claims: listener outcomes

MissingCodeErr == Err("InvalidAuthorizationCode", "", EmptyStr)

BindErr == Err("CallbackServer", "Failed to bind to {}: {}", EmptyStr)

\* C18: a handled request with no `error`, a `state` equal to expected_state and no
\* `code` has the missing-code outcome (InvalidAuthorizationCode) and its page,
\* never success; when that request took the sender, it is what was delivered and
\* what the caller got.
C18_MissingCode ==
    \A r \in Requests :
        (/\ Responded(r)
         /\ reqs[r].params.error = None
         /\ reqs[r].params.state = Some(expected_state)
         /\ reqs[r].params.code = None) =>
            /\ reqs[r].outcome = MissingCodeErr
            /\ reqs[r].outcome.kind # "Ok"
            /\ reqs[r].page = "Authorization Failed: No authorization code received"
            /\ (reqs[r].took /\ deliveries # <<>>) => deliveries = <<MissingCodeErr>>
            /\ (reqs[r].took /\ caller = "returned") => result = MissingCodeErr

\* A request with the expected state and neither `error` nor `code` took the
\* sender, and the caller got the missing-code error.
C18_Witness ==
    \E r \in Requests :
        /\ Responded(r)
        /\ reqs[r].params = [code |-> None, state |-> Some(expected_state), error |-> None]
        /\ expected_state # EmptyStr
        /\ reqs[r].took
        /\ caller = "returned"
        /\ result = MissingCodeErr

\* The call is past bind and the listener never got a socket.
BindFailed == caller # "start" /\ listener = "unbound"

\* C19: when bind fails, run_callback_server has returned at once with the
\* bind-failure error, whose kind CallbackServer is not that of a provider denial
\* (OAuth); no second bind follows, no server task was started, and no request is
\* accepted or handled.
C19_BindFailureReported ==
    BindFailed =>
        /\ caller = "returned"
        /\ result = BindErr
        /\ result.kind = "CallbackServer"
        /\ result.kind # "OAuth"
        /\ serverTask = "none"
        /\ \A r \in Requests : reqs[r].pc = "none"
        /\ deliveries = <<>>
        /\ takers = <<>>
        /\ ~ENABLED BindOk
        /\ ~ENABLED BindFail
        /\ \A r \in Requests : ~ENABLED Accept(r)

\* Bind failed and the call returned its error.
C19_Witness ==
    /\ BindFailed
    /\ caller = "returned"
    /\ result = BindErr
    /\ serverTask = "none"

C21_UrlUsesConfiguredRedirect ==
    /\ \A i \in DOMAIN flows :
           /\ QueryValues(flows[i].authorization_url, "redirect_uri")
                  = {FormEncodeText(config.redirect_uri)}
           /\ QueryValues(flows[i].authorization_url, "client_id")
                  = {FormEncodeText(config.client_id)}
    /\ \A k \in DOMAIN outbox :
           outbox[k].body.grant_type = "authorization_code"
               => outbox[k].body.redirect_uri = REDIRECT_URI

\* ------------------------------------------------------------ claims: key issuance and HTTP errors

\* C23: a create_api_key call that has ended returned a key only if the access
\* token is non-empty, its one POST to the key endpoint, with the bearer header, was
\* answered 2xx, and the key in the answer is non-empty; a 2xx answer with an empty
\* key ends in an error, a non-2xx answer in the HTTP error with that status and
\* body, and an empty access token in an error with nothing sent.
C23_ApiKeyOnlyWhenValid ==
    (Started("create_api_key") /\ call.pc = "done") =>
        LET r == call.response IN
        /\ call.ret.kind # "None"
        /\ call.ret.kind = "Ok" =>
               /\ Len(call.args.token) >= 1
               /\ Len(outbox) = 1
               /\ outbox[1].url = API_KEY_URL
               /\ outbox[1].bearer = Some(call.args.token)
               /\ r.net = "ok"
               /\ IsSuccess(r.status)
               /\ IsSome(r.json)
               /\ call.ret.key = Unwrap(r.json).raw_key
               /\ Len(call.ret.key) >= 1
        /\ Len(call.args.token) = 0 => (call.ret.kind = "OAuth" /\ outbox = <<>>)
        /\ (r.net = "ok" /\ IsSuccess(r.status) /\ IsSome(r.json)
                /\ Len(Unwrap(r.json).raw_key) = 0) =>
               call.ret = CErr("OAuth", "Received empty API key from server")
        /\ (r.net = "ok" /\ ~IsSuccess(r.status)) =>
               /\ call.ret.kind = "Http"
               /\ call.ret.status = r.status
               /\ call.ret.body = r.body

\* create_api_key was answered 200 with an empty key and ended in the error.
C23_Witness ==
    /\ Started("create_api_key")
    /\ call.pc = "done"
    /\ call.response.net = "ok"
    /\ call.response.status = 200
    /\ call.response.json = Some([raw_key |-> EmptyStr])
    /\ call.ret = CErr("OAuth", "Received empty API key from server")
    /\ Len(outbox) = 1

HintCode ==
    "The authorization code may be invalid, expired, or already used. Please try the flow again."

HintVerifier ==
    "The PKCE verifier doesn't match. Make sure you're using the verifier from the same flow."

HintState == "The state parameter is invalid. This could indicate a security issue."

HintBadRequest == "Bad request - check that all parameters are correct."

\* The class of an HTTP error, read from its hint.
HttpClass(ret) ==
    IF ret.hint = None THEN "unclassified"
    ELSE IF Unwrap(ret.hint) \in {HintCode, HintVerifier, HintState, HintBadRequest}
    THEN "bad-request"
    ELSE IF Unwrap(ret.hint)
                = "Authentication failed - the access token may be invalid or expired."
    THEN "authentication-failed"
    ELSE IF Unwrap(ret.hint)
                = "Access forbidden - you may not have permission to perform this action."
    THEN "forbidden"
    ELSE IF Unwrap(ret.hint) = "Endpoint not found - the API URL may have changed."
    THEN "not-found"
    ELSE IF Unwrap(ret.hint) = "Rate limit exceeded - please wait before retrying."
    THEN "rate-limited"
    ELSE IF Unwrap(ret.hint)
                = "Server error - this is an issue on Anthropic's side. Please try again later."
    THEN "server-error"
    ELSE "other"

\* The class the status alone calls for.
StatusClass(status) ==
    IF status = 400 THEN "bad-request"
    ELSE IF status = 401 THEN "authentication-failed"
    ELSE IF status = 403 THEN "forbidden"
    ELSE IF status = 404 THEN "not-found"
    ELSE IF status = 429 THEN "rate-limited"
    ELSE IF status >= 500 /\ status <= 599 THEN "server-error"
    ELSE "unclassified"

\* C24: a call answered with a non-2xx status has ended with an HTTP error that
\* carries that status and body unchanged and whose class is the one the status
\* calls for: bad-request for 400, authentication-failed for 401, forbidden for 403,
\* not-found for 404, rate-limited for 429, server-error for 500..599, and no hint
\* for any other status; whatever the class, the call has ended after its one
\* request and returned an error, not a value.
C24_HttpErrorClass ==
    (call.response.net = "ok" /\ ~IsSuccess(call.response.status)) =>
        /\ call.pc = "done"
        /\ Len(outbox) = 1
        /\ call.ret.kind = "Http"
        /\ call.ret.status = call.response.status
        /\ call.ret.body = call.response.body
        /\ call.ret.tokens = NoTokens
        /\ call.ret.key = EmptyStr
        /\ HttpClass(call.ret) = StatusClass(call.response.status)

\* A call answered 429 with a body that mentions the code has ended with the
\* rate-limited error: the status decides the class, not the body.
C24_Witness ==
    /\ call.pc = "done"
    /\ call.response.status = 429
    /\ call.response.body = WordCode
    /\ call.ret.kind = "Http"
    /\ call.ret.status = 429
    /\ call.ret.hint = Some("Rate limit exceeded - please wait before retrying.")
    /\ Len(outbox) = 1

\* C28: for a 400 answer the sub-hint follows what the body mentions: the
\* PKCE-verifier hint when it contains "verifier" (so also for "code_verifier"), the
\* state hint when it contains "state" and mentions neither verifier nor code, the
\* authorization-code hint when it contains "code" and does not mention the
\* verifier.
C28_SubHintByBody ==
    (call.response.net = "ok" /\ call.response.status = 400 /\ call.ret.kind = "Http") =>
        LET body == call.response.body
            verifier == Contains(body, WordVerifier) \/ Contains(body, WordCodeVerifier)
            state == Contains(body, WordState)
            code == Contains(body, WordCode)
        IN /\ verifier => call.ret.hint = Some(HintVerifier)
           /\ (state /\ ~verifier /\ ~code) => call.ret.hint = Some(HintState)
           /\ (code /\ ~verifier) => call.ret.hint = Some(HintCode)
           /\ body = WordCodeVerifier => call.ret.hint = Some(HintVerifier)

\* ------------------------------------------------------------ claims: success page

\* C27: a request answered with the 'Authorization Successful' page is the request
\* whose handler took the sender, and the outcome the caller gets is the success
\* outcome of that request; no request handled after a failure outcome was
\* delivered is answered with the success page.
C27_SuccessPageMeansSucceeded ==
    \A r \in Requests :
        (Responded(r) /\ reqs[r].page = "Authorization Successful") =>
            /\ reqs[r].took
            /\ reqs[r].outcome.kind = "Ok"
            /\ deliveries # <<>> => deliveries[1] = reqs[r].outcome
            /\ caller = "returned" => result = reqs[r].outcome

\* ------------------------------------------------------------ claims: a session

\* A URL without its code_challenge pair.
WithoutChallenge(url) ==
    [url EXCEPT !.query = SelectSeq(url.query, LAMBDA p : p.name # "code_challenge")]

\* What append_pair makes of the challenge and of the verifier of each draw, and of
\* the state of each draw.
PkceUrlValue ==
    [d \in RandomDraws(PkceRandomLen) |->
        [challenge |-> FormEncode(S256Challenge(PkceVerifier(d))),
         verifier |-> FormEncode(PkceVerifier(d))]]

StateUrlValue == [d \in RandomDraws(StateRandomLen) |-> FormEncode(RandomState[d])]

\* The values start_flow appends to the URL as texts of its own or of the
\* configuration.
UrlTexts == {"true", "code", "S256", config.client_id, REDIRECT_URI, SCOPE}

C25_FlowConsumedOnce == \A i \in DOMAIN flows : exchanged[i] <= 1

\* ------------------------------------------------------------ claims: listener, then exchange

\* C26: for every Succeeded outcome {code, state} the listener delivers for its
\* expected_state, exchange_code(code, state, verifier) passes the CSRF state check
\* and the code it parses, builds into the request and sends is exactly the
\* delivered code, also when that code contains '#'.
C26_DeliveredCodeExchanged ==
    (caller = "returned" /\ result.kind = "Ok" /\ Started("exchange_code")) =>
        /\ call.ret.text # CsrfMismatchText
        /\ IsSome(call.parsed)
        /\ Unwrap(call.parsed).code = result.code
        /\ call.pc \in {"ready", "awaiting"} => call.request.body.code = result.code
        /\ \A k \in DOMAIN outbox : outbox[k].body.code = result.code

====
